---- MODULE Spec2Model ----
(***************************************************************************)
(* scripts/check_wandb_models.py: the check that every Dataiku saved       *)
(* model's active version is published as a W&B registry artifact.         *)
(*                                                                         *)
(* Python strings are sequences of one-character strings, so that `in`,   *)
(* lower() and split(":", 1) are computed character by character.  None    *)
(* is the one-element sequence <<"None">>, which no string equals (its     *)
(* element is not a character).                                            *)
(***************************************************************************)
EXTENDS Integers, Sequences, FiniteSets, TLC

\* ------------------------------------------------------------ bounds
MaxSecrets == 2
MaxModels == 2
MaxCollections == 2
MaxArtifacts == 1

\* ------------------------------------------------------------ strings
None == <<"None">>

\* Python truthiness of an optional string: None and "" are falsy.
Truthy(v) == v # None /\ v # <<>>

UpperAlpha == <<"A","B","C","D","E","F","G","H","I","J","K","L","M",
                "N","O","P","Q","R","S","T","U","V","W","X","Y","Z">>
LowerAlpha == <<"a","b","c","d","e","f","g","h","i","j","k","l","m",
                "n","o","p","q","r","s","t","u","v","w","x","y","z">>

LowerChar(c) ==
    IF \E i \in DOMAIN UpperAlpha : UpperAlpha[i] = c
    THEN LowerAlpha[CHOOSE i \in DOMAIN UpperAlpha : UpperAlpha[i] = c]
    ELSE c

\* str.lower()
Lower(s) == [i \in DOMAIN s |-> LowerChar(s[i])]

\* s[i:].startswith(sub), i counted from 0
StartsWithAt(sub, s, i) ==
    /\ i + Len(sub) <= Len(s)
    /\ \A k \in 1..Len(sub) : s[i + k] = sub[k]

\* str.find(sub, i): the scan behind `sub in s`; -1 when there is no occurrence
RECURSIVE Find(_, _, _)
Find(sub, s, i) ==
    IF i + Len(sub) > Len(s) THEN -1
    ELSE IF StartsWithAt(sub, s, i) THEN i
    ELSE Find(sub, s, i + 1)

\* `sub in s`
In(sub, s) == Find(sub, s, 0) >= 0

\* the literals of the script
S_model == <<"m","o","d","e","l">>
S_true == <<"t","r","u","e">>
S_false == <<"f","a","l","s","e">>
S_colon == <<":">>
S_dataiku == <<"d","a","t","a","i","k","u","-">>
S_dash == <<"-">>

\* ------------------------------------------------------------ inputs
\* Secrets a DSS user may hold: a keyed store, so a key occurs at most once.
SecretPool ==
    { [key |-> "wandbcred", value |-> <<"k">>],
      [key |-> "wandbcred", value |-> <<>>],
      [key |-> "wandbcred", value |-> None],
      [key |-> "other", value |-> <<"k">>] }

BoundedSeq(S, n) == UNION { [1..k -> S] : k \in 0..n }

UniqueKeys(s) == \A i, j \in DOMAIN s : s[i].key = s[j].key => i = j

SecretLists == { s \in BoundedSeq(SecretPool, MaxSecrets) : UniqueKeys(s) }

ModelIds == { <<"m","1">>, <<"m","2">> }

\* saved model ids are unique within a project
UniqueIds(s) == \A i, j \in DOMAIN s : s[i] = s[j] => i = j

ModelLists == { s \in BoundedSeq(ModelIds, MaxModels) : UniqueIds(s) }

VersionIds == { <<"v","4">>, <<"v","4","2">> }

\* Values of the FAIL_ON_NO_PUBLISH environment variable (None: not set).
EnvValues == { None, <<"T","R","U","E">>, S_false }

\* Artifacts the registry may hold; qualified names are unique per artifact.
A_m2v4 ==
    [type |-> <<"M","O","D","E","L">>,
     source_name |-> <<"d","a","t","a","i","k","u","-","m","2","-","v","4">>,
     qualified_name |-> <<"e","/","2">>]
A_x_m2v42 ==
    [type |-> <<"M","o","d","e","l">>,
     source_name |-> <<"x",":","d","a","t","a","i","k","u","-","m","2","-","v","4","2",":","v","1">>,
     qualified_name |-> <<"e","/","d","a","t","a","i","k","u","-","m","1","-","v","4",":","v","0">>]
A_dataset ==
    [type |-> <<"D","a","t","a","s","e","t">>,
     source_name |-> <<"d","a","t","a","i","k","u","-","m","1","-","v","4","2",":","v","0">>,
     qualified_name |-> <<"e","/","4">>]
A_untyped ==
    [type |-> None,
     source_name |-> <<"d","a","t","a","i","k","u","-","m","2","-","v","4",":","v","0">>,
     qualified_name |-> <<"e","/","5">>]
A_model_sp ==
    [type |-> <<"m","o","d","e","l"," ">>,
     source_name |-> <<"d","a","t","a","i","k","u","-","m","1","-","v","4",":","v","0">>,
     qualified_name |-> <<"e","/","6">>]

ArtifactPool == { A_m2v4, A_x_m2v42, A_dataset, A_untyped, A_model_sp }

NoArtifact == [type |-> None, source_name |-> None, qualified_name |-> None]

\* The i-th collection the registry yields is named "c", "c+", "c++", ...
CollectionName(i) == <<"c">> \o [k \in 1..(i - 1) |-> "+"]

\* Ways a registry call can fail: wandb's CommError, or anything else.
RegistryExceptions == { "CommError", "ConnectionError" }

\* ------------------------------------------------------------ state
VARIABLES
    pc,               \* position in the script
    WANDB_API_KEY_bound, \* whether the global name WANDB_API_KEY resolves at line 50:
                      \* its only assignment, line 28, is commented out, so the
                      \* script binds it in no run (FALSE); TRUE is a run whose
                      \* interpreter already holds the name in builtins, where the
                      \* script also finds `exit`
    env_FAIL_ON_NO_PUBLISH, \* the environment variable, None when unset
    auth_info,        \* [fetched, secrets]: what get_auth_info returned
    secret_value,
    saved_model_ids,
    collection_no,    \* how many collections the registry iterator has yielded
    artifact_no,      \* how many artifacts the current collection has yielded
    artifact,         \* the loop variable of line 63
    artifacts,
    artifact_names,
    any_published,
    sm_index,         \* position of the loop of line 76 in saved_model_ids
    results,          \* what the loop has printed, one record per model
    calls,            \* the calls made to the two platforms, in order
    error,            \* the exception that ended the run, "" when none
    exit_code         \* -1 while the process has not exited

vars == << pc, WANDB_API_KEY_bound, env_FAIL_ON_NO_PUBLISH, auth_info, secret_value,
           saved_model_ids, collection_no, artifact_no, artifact, artifacts,
           artifact_names, any_published, sm_index, results, calls, error, exit_code >>

\* ------------------------------------------------------------ pure parts of the script

\* lines 40-44: the value of the first secret whose key is "wandbcred"
RECURSIVE FindSecret(_)
FindSecret(secrets) ==
    IF secrets = <<>> THEN None
    ELSE IF Head(secrets).key = "wandbcred" THEN Head(secrets).value
    ELSE FindSecret(Tail(secrets))

\* `secret_value is None` in place of line 45's `not secret_value`
SecretMissingIsNone(v) == v = None

\* line 45: `not secret_value`
SecretMissing(v) == ~Truthy(v)

\* line 64 without lower()
IsModelTypeCaseSensitive(t) == t = S_model

\* line 64: artifact.type and artifact.type.lower() == "model"
IsModelType(t) == Truthy(t) /\ Lower(t) = S_model

\* lines 65-69
Entry(cname, a) ==
    [collection |-> cname, artifact |-> a.source_name, path |-> a.qualified_name]

\* line 73
ArtifactNames(arts) ==
    [i \in DOMAIN arts |-> [name |-> arts[i].artifact, path |-> arts[i].path]]

\* line 84
ModelIdentifier(sm, active_id) == S_dataiku \o sm \o S_dash \o active_id

\* startswith in place of line 88's `in`
MatchesAnchored(model_identifier, a) == StartsWithAt(model_identifier, a.name, 0)

\* line 88: the test of the comprehension
Matches(model_identifier, a) == In(model_identifier, a.name)

\* line 88: [a for a in artifact_names if model_identifier in a["name"]]
RECURSIVE Candidates(_, _)
Candidates(model_identifier, names) ==
    IF names = <<>> THEN <<>>
    ELSE IF Matches(model_identifier, Head(names))
         THEN <<Head(names)>> \o Candidates(model_identifier, Tail(names))
         ELSE Candidates(model_identifier, Tail(names))

\* any_published assigned from the last model alone
UpdateAnyPublishedLastWins(prev, candidate_artifacts) == candidate_artifacts # <<>>

\* lines 90-94: any_published after one model
UpdateAnyPublished(prev, candidate_artifacts) ==
    IF candidate_artifacts = <<>> THEN prev ELSE TRUE

\* the index of the last occurrence of a one-character sub in s, -1 when none
LastIndex(sub, s) ==
    IF In(sub, s)
    THEN CHOOSE i \in 0..(Len(s) - 1) :
            /\ s[i + 1] = sub[1]
            /\ \A j \in (i + 1)..(Len(s) - 1) : s[j + 1] # sub[1]
    ELSE -1

\* rsplit(":", 1) in place of lines 97-100's split(":", 1)
SplitVersionAtLast(wb_name_full) ==
    IF In(S_colon, wb_name_full)
    THEN LET i == LastIndex(S_colon, wb_name_full)
         IN << SubSeq(wb_name_full, 1, i),
               SubSeq(wb_name_full, i + 2, Len(wb_name_full)) >>
    ELSE << wb_name_full, None >>

\* lines 97-100: (wb_name_base, wb_version)
SplitVersion(wb_name_full) ==
    IF In(S_colon, wb_name_full)
    THEN LET i == Find(S_colon, wb_name_full, 0)
         IN << SubSeq(wb_name_full, 1, i),
               SubSeq(wb_name_full, i + 2, Len(wb_name_full)) >>
    ELSE << wb_name_full, None >>

\* line 112: os.getenv("FAIL_ON_NO_PUBLISH", "false").lower() == "true"
FailOnNoPublish(env) == Lower(IF env = None THEN S_false ELSE env) = S_true

\* lines 109-113: the exit status of a run that reaches the end of the script
ExitStatus(published, env) ==
    IF ~published /\ FailOnNoPublish(env) THEN 1 ELSE 0

\* ------------------------------------------------------------ control flow

\* lines 55-57 without the early exit
AfterListNoEarlyExit(ids) == "collect"

\* lines 55-57: where the script goes after listing the saved models
AfterList(ids) == IF ids = <<>> THEN "done" ELSE "collect"

\* lines 70-71 logging the error and carrying on with what was collected
CollectFailureSwallowed(exc) ==
    [pc |-> "names", error |-> IF exc = "CommError" THEN "RuntimeError" ELSE exc]

\* lines 70-71: CommError is re-raised as RuntimeError, the rest propagates
CollectFailure(exc) ==
    [pc |-> "fatal", error |-> IF exc = "CommError" THEN "RuntimeError" ELSE exc]

\* lines 80-82 inside a try that logs the failure and stays in the loop
LookupFailureSwallowed == [pc |-> "loop", error |-> "LookupError"]

\* lines 80-82: nothing catches a failed lookup
LookupFailure == [pc |-> "fatal", error |-> "LookupError"]

\* line 76: after i models the for loop takes the next one, or falls through to
\* line 109 when the list is exhausted (i = 0: the loop is entered)
AfterModelRecollect(i, n) ==
    IF i = 0 THEN (IF n > 0 THEN "loop" ELSE "report")
    ELSE IF i < n THEN "collect" ELSE "report"

AfterModel(i, n) == IF i < n THEN "loop" ELSE "report"

Fatal(kind) ==
    /\ pc' = "fatal"
    /\ error' = kind

\* ------------------------------------------------------------ actions
Init ==
    /\ pc = "start"
    /\ WANDB_API_KEY_bound \in BOOLEAN
    /\ env_FAIL_ON_NO_PUBLISH \in EnvValues
    /\ auth_info = [fetched |-> FALSE, secrets |-> <<>>]
    /\ secret_value = None
    /\ saved_model_ids = <<>>
    /\ collection_no = 0
    /\ artifact_no = 0
    /\ artifact = NoArtifact
    /\ artifacts = <<>>
    /\ artifact_names = <<>>
    /\ any_published = FALSE
    /\ sm_index = 0
    /\ results = <<>>
    /\ calls = <<>>
    /\ error = ""
    /\ exit_code = -1

\* lines 32-36
Connect ==
    /\ pc = "start"
    /\ calls' = Append(calls, "get_project")
    /\ \E ok \in BOOLEAN :
         IF ok THEN pc' = "auth" /\ error' = error
         ELSE Fatal("DSSError")
    /\ UNCHANGED << WANDB_API_KEY_bound, env_FAIL_ON_NO_PUBLISH, auth_info, secret_value,
                    saved_model_ids, collection_no, artifact_no, artifact, artifacts,
                    artifact_names, any_published, sm_index, results, exit_code >>

\* lines 39-46
ResolveSecret ==
    /\ pc = "auth"
    /\ calls' = Append(calls, "get_auth_info")
    /\ \/ /\ Fatal("DSSError")
          /\ UNCHANGED << auth_info, secret_value >>
       \/ \E secrets \in SecretLists :
            /\ auth_info' = [fetched |-> TRUE, secrets |-> secrets]
            /\ secret_value' = FindSecret(secrets)
            /\ IF SecretMissing(secret_value')
               THEN Fatal("SecretNotFound")
               ELSE pc' = "login" /\ error' = error
    /\ UNCHANGED << WANDB_API_KEY_bound, env_FAIL_ON_NO_PUBLISH,
                    saved_model_ids, collection_no, artifact_no, artifact, artifacts,
                    artifact_names, any_published, sm_index, results, exit_code >>

\* lines 50-51: the argument WANDB_API_KEY is evaluated before wandb.login is called,
\* and raises NameError when the name is unbound
Login ==
    /\ pc = "login"
    /\ IF ~WANDB_API_KEY_bound
       THEN Fatal("NameError") /\ calls' = calls
       ELSE /\ calls' = Append(calls, "login")
            /\ \E ok \in BOOLEAN :
                 IF ok THEN pc' = "list" /\ error' = error
                 ELSE Fatal("WandbError")
    /\ UNCHANGED << WANDB_API_KEY_bound, env_FAIL_ON_NO_PUBLISH, auth_info, secret_value,
                    saved_model_ids, collection_no, artifact_no, artifact, artifacts,
                    artifact_names, any_published, sm_index, results, exit_code >>

\* lines 54-57
ListSavedModels ==
    /\ pc = "list"
    /\ calls' = Append(calls, "list_saved_models")
    /\ \/ /\ Fatal("DSSError")
          /\ UNCHANGED << saved_model_ids, exit_code >>
       \/ \E ids \in ModelLists :
            /\ saved_model_ids' = ids
            /\ pc' = AfterList(ids)
            /\ exit_code' = IF pc' = "done" THEN 0 ELSE exit_code
            /\ error' = error
    /\ UNCHANGED << WANDB_API_KEY_bound, env_FAIL_ON_NO_PUBLISH, auth_info, secret_value,
                    collection_no, artifact_no, artifact, artifacts,
                    artifact_names, any_published, sm_index, results >>

\* lines 60-62: artifacts = [] and the call of api.registries().collections()
BeginCollect ==
    /\ pc = "collect"
    /\ artifacts' = <<>>
    /\ calls' = Append(calls, "collections")
    /\ \/ /\ pc' = "collections"
          /\ error' = error
       \/ \E exc \in RegistryExceptions :
            /\ pc' = CollectFailure(exc).pc
            /\ error' = CollectFailure(exc).error
    /\ UNCHANGED << WANDB_API_KEY_bound, env_FAIL_ON_NO_PUBLISH, auth_info, secret_value,
                    saved_model_ids, collection_no, artifact_no, artifact,
                    artifact_names, any_published, sm_index, results, exit_code >>

\* line 62-63: the outer iterator yields the next collection and collection.artifacts()
\* is called, or the iterator is exhausted, or fetching the next page fails
NextCollection ==
    /\ pc = "collections"
    /\ \/ /\ collection_no < MaxCollections
          /\ collection_no' = collection_no + 1
          /\ artifact_no' = 0
          /\ calls' = Append(calls, "artifacts")
          /\ pc' = "artifacts"
          /\ error' = error
       \/ /\ pc' = "names"
          /\ error' = error
          /\ UNCHANGED << collection_no, artifact_no, calls >>
       \/ \E exc \in RegistryExceptions :
            /\ pc' = CollectFailure(exc).pc
            /\ error' = CollectFailure(exc).error
            /\ UNCHANGED << collection_no, artifact_no, calls >>
    /\ UNCHANGED << WANDB_API_KEY_bound, env_FAIL_ON_NO_PUBLISH, auth_info, secret_value,
                    saved_model_ids, artifact, artifacts,
                    artifact_names, any_published, sm_index, results, exit_code >>

\* lines 63-69: the inner iterator yields the next artifact, which is kept when it is
\* model-typed, or the iterator is exhausted, or fetching the next page fails
NextArtifact ==
    /\ pc = "artifacts"
    /\ \/ /\ artifact_no < MaxArtifacts
          /\ \E a \in ArtifactPool :
               /\ artifact' = a
               /\ artifacts' = IF IsModelType(a.type)
                               THEN Append(artifacts, Entry(CollectionName(collection_no), a))
                               ELSE artifacts
          /\ artifact_no' = artifact_no + 1
          /\ UNCHANGED << pc, error >>
       \/ /\ pc' = "collections"
          /\ UNCHANGED << artifact, artifacts, artifact_no, error >>
       \/ \E exc \in RegistryExceptions :
            /\ pc' = CollectFailure(exc).pc
            /\ error' = CollectFailure(exc).error
            /\ UNCHANGED << artifact, artifacts, artifact_no >>
    /\ UNCHANGED << WANDB_API_KEY_bound, env_FAIL_ON_NO_PUBLISH, auth_info, secret_value,
                    saved_model_ids, collection_no,
                    artifact_names, any_published, sm_index, results, calls, exit_code >>

\* lines 73-74
BuildNames ==
    /\ pc = "names"
    /\ artifact_names' = ArtifactNames(artifacts)
    /\ any_published' = FALSE
    /\ sm_index' = 1
    /\ pc' = AfterModel(0, Len(saved_model_ids))
    /\ UNCHANGED << WANDB_API_KEY_bound, env_FAIL_ON_NO_PUBLISH, auth_info, secret_value,
                    saved_model_ids, collection_no, artifact_no, artifact, artifacts,
                    results, calls, error, exit_code >>

\* lines 76-107: one iteration of the loop over saved_model_ids
CheckModel ==
    /\ pc = "loop"
    /\ sm_index \in DOMAIN saved_model_ids
    /\ calls' = Append(calls, "get_active_version")
    /\ LET sm == saved_model_ids[sm_index] IN
       \/ /\ pc' = LookupFailure.pc
          /\ error' = LookupFailure.error
          /\ UNCHANGED << any_published, sm_index, results >>
       \/ \E active_id \in VersionIds :
            LET model_identifier == ModelIdentifier(sm, active_id)
                candidate_artifacts == Candidates(model_identifier, artifact_names)
            IN /\ any_published' = UpdateAnyPublished(any_published, candidate_artifacts)
               /\ results' = Append(results,
                     [sm |-> sm,
                      active_id |-> active_id,
                      model_identifier |-> model_identifier,
                      matches |-> candidate_artifacts,
                      parsed |-> [k \in DOMAIN candidate_artifacts |->
                                     SplitVersion(candidate_artifacts[k].name)]])
               /\ sm_index' = sm_index + 1
               /\ pc' = AfterModel(sm_index, Len(saved_model_ids))
               /\ error' = error
    /\ UNCHANGED << WANDB_API_KEY_bound, env_FAIL_ON_NO_PUBLISH, auth_info, secret_value,
                    saved_model_ids, collection_no, artifact_no, artifact, artifacts,
                    artifact_names, exit_code >>

\* lines 109-113, and the end of the script
Report ==
    /\ pc = "report"
    /\ exit_code' = ExitStatus(any_published, env_FAIL_ON_NO_PUBLISH)
    /\ pc' = "done"
    /\ UNCHANGED << WANDB_API_KEY_bound, env_FAIL_ON_NO_PUBLISH, auth_info, secret_value,
                    saved_model_ids, collection_no, artifact_no, artifact, artifacts,
                    artifact_names, any_published, sm_index, results, calls, error >>

Next ==
    \/ Connect
    \/ ResolveSecret
    \/ Login
    \/ ListSavedModels
    \/ BeginCollect
    \/ NextCollection
    \/ NextArtifact
    \/ BuildNames
    \/ CheckModel
    \/ Report

Spec == Init /\ [][Next]_vars

\* ------------------------------------------------------------ properties

\* sub occurs in s as a contiguous block at some offset
HasSubstring(sub, s) ==
    \E p \in 0..Len(s) :
        /\ p + Len(sub) <= Len(s)
        /\ SubSeq(s, p + 1, p + Len(sub)) = sub

HasChar(c, s) == \E i \in DOMAIN s : s[i] = c

\* "dataiku-S-V"
DataikuName(S, V) == <<"d","a","t","a","i","k","u","-">> \o S \o <<"-">> \o V

\* the positions of the collected artifacts whose source_name holds the identifier
Hits(r) ==
    { i \in DOMAIN artifacts :
        HasSubstring(DataikuName(r.sm, r.active_id), artifacts[i].artifact) }

Rank(K, i) == Cardinality({ j \in K : j <= i })

\* "model" in any letter case
ModelTyped(t) ==
    /\ t # None
    /\ Len(t) = 5
    /\ t[1] \in {"m","M"} /\ t[2] \in {"o","O"} /\ t[3] \in {"d","D"}
    /\ t[4] \in {"e","E"} /\ t[5] \in {"l","L"}

\* "true" in any letter case
FlagIsTrue(v) ==
    /\ v # None
    /\ Len(v) = 4
    /\ v[1] \in {"t","T"} /\ v[2] \in {"r","R"} /\ v[3] \in {"u","U"} /\ v[4] \in {"e","E"}

CountCalls(name) == Cardinality({ i \in DOMAIN calls : calls[i] = name })

\* C1: every reported model's matches are exactly the collected artifacts whose
\* source_name contains "dataiku-<id>-<active version>" at any offset, all of them,
\* duplicates included, in collection order, whatever their path or collection says.
C1_MatchesAreTheContainingArtifacts ==
    \A n \in DOMAIN results :
        LET r == results[n]
            K == Hits(r)
        IN /\ Len(r.matches) = Cardinality(K)
           /\ \A i \in K :
                r.matches[Rank(K, i)] =
                    [name |-> artifacts[i].artifact, path |-> artifacts[i].path]

\* a model with two different matches while the identifier is a proper part of a name
C1_Witness ==
    \E n \in DOMAIN results :
        /\ Len(results[n].matches) = 2
        /\ results[n].matches[1] # results[n].matches[2]
        /\ results[n].matches[1].name # results[n].model_identifier

\* C2: an artifact whose type is None or is not "model" in some letter case is in no
\* collected list and in no model's matches; an artifact typed "model" in any case is
\* appended to the collected list when it is enumerated, and the list the models are
\* matched against is the collected list.
C2_TypeFilterPrecedesMatching ==
    /\ \A a \in ArtifactPool :
         ~ModelTyped(a.type) =>
            /\ \A i \in DOMAIN artifacts : artifacts[i].path # a.qualified_name
            /\ \A n \in DOMAIN results :
                 \A k \in DOMAIN results[n].matches :
                    results[n].matches[k].path # a.qualified_name
    /\ (artifact # NoArtifact /\ ModelTyped(artifact.type)) =>
            /\ artifacts # <<>>
            /\ artifacts[Len(artifacts)].artifact = artifact.source_name
            /\ artifacts[Len(artifacts)].path = artifact.qualified_name
    /\ (pc \in {"loop", "report"} \/ results # <<>>) =>
            /\ Len(artifact_names) = Len(artifacts)
            /\ \A i \in DOMAIN artifacts :
                 /\ artifact_names[i].name = artifacts[i].artifact
                 /\ artifact_names[i].path = artifacts[i].path

\* the last artifact enumerated is not model-typed, its name holds a reported model's
\* identifier, and that model has no match
C2_Witness ==
    /\ artifact # NoArtifact
    /\ ~ModelTyped(artifact.type)
    /\ \E n \in DOMAIN results :
         /\ HasSubstring(results[n].model_identifier, artifact.source_name)
         /\ results[n].matches = <<>>

\* C3: once the loop over the saved models has finished, every model has been
\* reported and any_published is true exactly when some model has a match; with no
\* collected artifact no model has a match and any_published is false.
C3_AnyPublishedIsTheOr ==
    (pc = "report" \/ (pc = "done" /\ saved_model_ids # <<>>)) =>
        /\ Len(results) = Len(saved_model_ids)
        /\ any_published <=> \E n \in DOMAIN results : results[n].matches # <<>>
        /\ artifacts = <<>> =>
             /\ ~any_published
             /\ \A n \in DOMAIN results : results[n].matches = <<>>

\* the loop is over, the first model is published and the last one is not
C3_Witness ==
    /\ pc = "report"
    /\ Len(results) = 2
    /\ results[1].matches # <<>>
    /\ results[2].matches = <<>>
    /\ any_published

\* C4: a run that exits does so with status 1 exactly when FAIL_ON_NO_PUBLISH is
\* "true" in some letter case, there is a saved model and no model has a match; every
\* other exit, the one with no saved model included, is status 0.
C4_ExitOneOnlyUnderPolicy ==
    pc = "done" =>
        /\ exit_code \in {0, 1}
        /\ exit_code = 1 <=>
             /\ FlagIsTrue(env_FAIL_ON_NO_PUBLISH)
             /\ saved_model_ids # <<>>
             /\ \A n \in DOMAIN results : results[n].matches = <<>>

\* the policy exit is taken
C4_Witness ==
    /\ pc = "done"
    /\ exit_code = 1
    /\ Len(results) = 2

C6_CollectionFailureAborts ==
    error \in { "RuntimeError", "ConnectionError" } =>
        /\ pc = "fatal"
        /\ artifact_names = <<>>
        /\ results = <<>>
        /\ CountCalls("get_active_version") = 0
        /\ exit_code = -1

\* the enumeration failed with a CommError after an artifact had been collected
C6_Witness ==
    /\ error = "RuntimeError"
    /\ artifacts # <<>>

\* C7: when the auth info holds no 'wandbcred' secret, or holds it with an empty value,
\* the run ends with the secret-not-found error having made no call beyond
\* get_auth_info: no login, no listing of saved models, no registry enumeration, no
\* lookup, no report and no exit status.
C7_MissingCredentialStopsBeforeWork ==
    ( /\ auth_info.fetched
      /\ \A i \in DOMAIN auth_info.secrets :
            auth_info.secrets[i].key = "wandbcred" =>
                auth_info.secrets[i].value \in { None, <<>> } ) =>
        /\ pc = "fatal"
        /\ error = "SecretNotFound"
        /\ calls = << "get_project", "get_auth_info" >>
        /\ saved_model_ids = <<>>
        /\ artifacts = <<>>
        /\ results = <<>>
        /\ exit_code = -1

\* the secret is present with an empty value, after another secret
C7_Witness ==
    /\ auth_info.fetched
    /\ Len(auth_info.secrets) = 2
    /\ auth_info.secrets[2] = [key |-> "wandbcred", value |-> <<>>]

\* C8: whenever a model has been matched the registry has been enumerated exactly
\* once and the names list is the collected list; a step that matches a model, or any
\* step taken after a model was matched, leaves the collected list and the names list
\* unchanged.
C8_CollectedOnceBeforeMatching ==
    /\ [](results # <<>> =>
            /\ CountCalls("collections") = 1
            /\ Len(artifact_names) = Len(artifacts)
            /\ \A i \in DOMAIN artifacts : artifact_names[i].name = artifacts[i].artifact)
    /\ [][ (results' # results \/ results # <<>>) =>
            /\ artifacts' = artifacts
            /\ artifact_names' = artifact_names
            /\ collection_no' = collection_no
            /\ artifact_no' = artifact_no ]_vars

\* two models matched against two artifacts from two collections
C8_Witness ==
    /\ pc = "report"
    /\ Len(results) = 2
    /\ Len(artifacts) = 2
    /\ collection_no = 2

\* C9: a matched name with a ':' is reported as (base, version) with no ':' in the
\* base and base + ":" + version the name; a name without ':' is reported as
\* (name, None).
C9_SplitAtFirstColon ==
    \A n \in DOMAIN results :
        \A k \in DOMAIN results[n].matches :
            LET name == results[n].matches[k].name
                base == results[n].parsed[k][1]
                version == results[n].parsed[k][2]
            IN IF HasChar(":", name)
               THEN /\ version # None
                    /\ ~HasChar(":", base)
                    /\ base \o <<":">> \o version = name
               ELSE /\ base = name
                    /\ version = None

\* one model matched by a name without ':' and by a name with two
C9_Witness ==
    \E n \in DOMAIN results :
        \E j, k \in DOMAIN results[n].matches :
            /\ results[n].parsed[j][2] = None
            /\ results[n].parsed[k][2] # None
            /\ HasChar(":", results[n].parsed[k][2])

\* C10: a run ends in an error only when the credential is missing or a call to one
\* of the two platforms failed.
C10_NoStepFailsOnItsOwn ==
    pc = "fatal" =>
        error \in { "SecretNotFound", "DSSError", "WandbError", "LookupError",
                    "RuntimeError", "ConnectionError" }

====
